---- MODULE Spec2Model ----
(***************************************************************************)
(* A model of streamlit_app.py: the four pipeline stages                   *)
(* (fetch_stock_data, process_data, calculate_metrics,                     *)
(* add_technical_indicators), the chart builder, the Update branch of the  *)
(* script and the watchlist loop.                                          *)
(*                                                                         *)
(* Python values are records with a "type" field.  A call of a function    *)
(* that has a try/except is a record [ret, err, exc]: the value returned,  *)
(* the st.error messages it showed, and the exception that left it         *)
(* ("none" when it returned).  Floats are modelled by exact numbers:       *)
(* prices by integers, a quotient by a fraction <<n, d>> in lowest terms.  *)
(***************************************************************************)
EXTENDS Integers, Sequences, FiniteSets

\* ------------------------------------------------------------- bounds
MaxRows == 2
MaxPrice == 2
MaxVolume == 3

\* ------------------------------------------------- program constants
SmaWindow == 20
EmaWindow == 20
WeekDays == 7
EasternOffset == 5

\* ------------------------------------------------------------ numbers
Abs(n) == IF n < 0 THEN -n ELSE n

RECURSIVE Gcd(_, _)
Gcd(a, b) == IF b = 0 THEN a ELSE Gcd(b, a % b)

\* The fraction n/d (d # 0) in lowest terms, the sign in the numerator.
Rat(n, d) ==
    LET g == Gcd(Abs(n), Abs(d))
        s == IF d < 0 THEN -1 ELSE 1
    IN  <<(s * n) \div g, (s * d) \div g>>

NaN == <<0, 0>>
FloatOf(n) == <<n, 1>>

RECURSIVE SumSeq(_)
SumSeq(s) == IF s = <<>> THEN 0 ELSE Head(s) + SumSeq(Tail(s))

RECURSIVE MaxSeq(_)
MaxSeq(s) ==
    IF Len(s) = 1 THEN Head(s)
    ELSE LET m == MaxSeq(Tail(s)) IN IF Head(s) > m THEN Head(s) ELSE m

RECURSIVE MinSeq(_)
MinSeq(s) ==
    IF Len(s) = 1 THEN Head(s)
    ELSE LET m == MinSeq(Tail(s)) IN IF Head(s) < m THEN Head(s) ELSE m

SeqContains(s, x) == \E i \in 1..Len(s) : s[i] = x
Range(s) == {s[i] : i \in 1..Len(s)}

\* ------------------------------------------------------ Python values
None == [type |-> "NoneType"]
IsNone(x) == x.type = "NoneType"

Return(v) == [exc |-> "none", val |-> v]
Raise(e) == [exc |-> e, val |-> None]

\* A pandas DataFrame: its index, the column labels in order, and each
\* column's values.
DatetimeIndex(name, tz, walls) ==
    [type |-> "DatetimeIndex", name |-> name, tz |-> tz, values |-> walls]
RangeIndex(n) ==
    [type |-> "RangeIndex", name |-> "", tz |-> "", values |-> [i \in 1..n |-> i - 1]]

DataFrame(index, columns, col) ==
    [type |-> "DataFrame", index |-> index, columns |-> columns, col |-> col]

NRows(df) == Len(df.index.values)
HasColumn(df, c) == SeqContains(df.columns, c)
\* DataFrame.empty: an axis of length 0.
IsEmpty(df) == NRows(df) = 0 \/ Len(df.columns) = 0

PriceColumns == <<"Open", "High", "Low", "Close", "Volume">>

\* The frame yfinance builds from bars: one row per bar, hourly stamps.
FrameOf(bars, name, tz) ==
    DataFrame(DatetimeIndex(name, tz, [i \in 1..Len(bars) |-> 13 + i]),
              PriceColumns,
              [c \in {PriceColumns[k] : k \in 1..Len(PriceColumns)} |->
                  [i \in 1..Len(bars) |-> bars[i][c]]])

\* The frame without column c.
DropColumn(df, c) ==
    DataFrame(df.index,
              SelectSeq(df.columns, LAMBDA x : x # c),
              [x \in (DOMAIN df.col) \ {c} |-> df.col[x]])

\* data[c] = values: appended as the last column when c is new.
SetColumn(df, c, values) ==
    DataFrame(df.index,
              IF HasColumn(df, c) THEN df.columns ELSE Append(df.columns, c),
              [x \in (DOMAIN df.col) \cup {c} |-> IF x = c THEN values ELSE df.col[x]])

\* ---------------------------------------------------- try / except
\* try: <body>  except Exception as e: st.error(msg); return default
TryExcept(body, msg, default) ==
    IF body.exc = "none"
    THEN [ret |-> body.val, err |-> <<>>, exc |-> "none"]
    ELSE [ret |-> default, err |-> <<msg>>, exc |-> "none"]

\* -------------------------------------------------- fetch_stock_data
\* DownloadRequest without the '1wk' branch: every period goes to the preset.
DownloadRequest_preset_only(ticker, period, interval, now) ==
    [ticker |-> ticker, kwargs |-> [period |-> period, interval |-> interval]]

\* The yf.download call fetch_stock_data makes: for '1wk' a window of the
\* last seven days, otherwise the provider's period preset.
DownloadRequest(ticker, period, interval, now) ==
    IF period = "1wk"
    THEN [ticker |-> ticker,
          kwargs |-> [start |-> now - WeekDays, end |-> now, interval |-> interval]]
    ELSE [ticker |-> ticker,
          kwargs |-> [period |-> period, interval |-> interval]]

\* outcome is what yf.download did with the request: Return(frame) or
\* Raise(exception).  The result also names the one request made.
fetch_stock_data(ticker, period, interval, now, outcome) ==
    LET r == TryExcept(outcome, "Error fetching data", None)
    IN  [ret |-> r.ret, err |-> r.err, exc |-> r.exc,
         request |-> DownloadRequest(ticker, period, interval, now)]

\* ------------------------------------------------------ process_data
\* Hours from UTC of a timezone's clock (US/Eastern at standard time).
UtcOffset(tz) == IF tz = "US/Eastern" THEN 0 - EasternOffset ELSE 0

\* DatetimeIndex.tz_localize: the wall-clock times are read as times of tz.
tz_localize(index, tz) ==
    DatetimeIndex(index.name, tz, index.values)

\* DatetimeIndex.tz_convert: the same instants, on the clock of tz.
tz_convert(index, tz) ==
    DatetimeIndex(index.name, tz,
                  [i \in 1..Len(index.values) |->
                      index.values[i] + UtcOffset(tz) - UtcOffset(index.tz)])

\* The label reset_index gives the column made of the index.
IndexLabel(index) == IF index.name = "" THEN "index" ELSE index.name

\* DataFrame.reset_index: the index becomes the first column, and a
\* RangeIndex takes its place.
reset_index(df) ==
    DataFrame(RangeIndex(NRows(df)),
              <<IndexLabel(df.index)>> \o df.columns,
              [x \in (DOMAIN df.col) \cup {IndexLabel(df.index)} |->
                  IF x = IndexLabel(df.index)
                  THEN [i \in 1..NRows(df) |->
                          [wall |-> df.index.values[i], tz |-> df.index.tz]]
                  ELSE df.col[x]])

\* DataFrame.rename(columns={old: new}).
rename(df, old, new) ==
    IF ~HasColumn(df, old) THEN df
    ELSE DataFrame(df.index,
                   [i \in 1..Len(df.columns) |->
                       IF df.columns[i] = old THEN new ELSE df.columns[i]],
                   [x \in ((DOMAIN df.col) \ {old}) \cup {new} |->
                       IF x = new THEN df.col[old] ELSE df.col[x]])

\* The try block of process_data.
process_data_body(data) ==
    IF IsNone(data) THEN Return(None)
    ELSE IF IsEmpty(data) THEN Return(None)
    ELSE IF data.index.type # "DatetimeIndex" THEN Raise("AttributeError")
    ELSE LET localized == IF data.index.tz = "naive"
                          THEN tz_localize(data.index, "UTC")
                          ELSE data.index
             converted == DataFrame(tz_convert(localized, "US/Eastern"),
                                    data.columns, data.col)
         IN  IF HasColumn(converted, IndexLabel(converted.index))
             THEN Raise("ValueError")
             ELSE Return(rename(reset_index(converted), "Date", "Datetime"))

process_data(data) ==
    TryExcept(process_data_body(data), "Error processing data", None)

\* ------------------------------------------------- calculate_metrics
ZeroMetrics == <<0, 0, FloatOf(0), 0, 0, 0>>

\* calculate_metrics_body with pct_change taken relative to the last close.
calculate_metrics_body_last_base(data) ==
    IF IsNone(data) THEN Raise("TypeError")
    ELSE IF ~HasColumn(data, "Close") THEN Raise("KeyError")
    ELSE IF NRows(data) = 0 THEN Raise("IndexError")
    ELSE LET last_close == data.col["Close"][NRows(data)]
             prev_close == data.col["Close"][1]
             change == last_close - prev_close
         IN  IF last_close = 0 THEN Raise("ZeroDivisionError")
             ELSE IF ~HasColumn(data, "High") THEN Raise("KeyError")
             ELSE IF ~HasColumn(data, "Low") THEN Raise("KeyError")
             ELSE IF ~HasColumn(data, "Volume") THEN Raise("KeyError")
             ELSE Return(<<last_close, change, Rat(change * 100, last_close),
                           MaxSeq(data.col["High"]), MinSeq(data.col["Low"]),
                           SumSeq(data.col["Volume"])>>)

\* The try block of calculate_metrics: the first statement that raises
\* ends it.
calculate_metrics_body(data) ==
    IF IsNone(data) THEN Raise("TypeError")
    ELSE IF ~HasColumn(data, "Close") THEN Raise("KeyError")
    ELSE IF NRows(data) = 0 THEN Raise("IndexError")
    ELSE LET last_close == data.col["Close"][NRows(data)]
             prev_close == data.col["Close"][1]
             change == last_close - prev_close
         IN  IF prev_close = 0 THEN Raise("ZeroDivisionError")
             ELSE IF ~HasColumn(data, "High") THEN Raise("KeyError")
             ELSE IF ~HasColumn(data, "Low") THEN Raise("KeyError")
             ELSE IF ~HasColumn(data, "Volume") THEN Raise("KeyError")
             ELSE Return(<<last_close, change, Rat(change * 100, prev_close),
                           MaxSeq(data.col["High"]), MinSeq(data.col["Low"]),
                           SumSeq(data.col["Volume"])>>)

\* calculate_metrics catching KeyError only: other exceptions leave it.
calculate_metrics_except_KeyError(data) ==
    LET body == calculate_metrics_body(data)
    IN  IF body.exc \in {"none", "KeyError"}
        THEN TryExcept(body, "Error calculating metrics", ZeroMetrics)
        ELSE [ret |-> ZeroMetrics, err |-> <<>>, exc |-> body.exc]

\* calculate_metrics whose handler keeps the fields computed before a
\* division by zero.
calculate_metrics_keeps_partial(data) ==
    LET body == calculate_metrics_body(data)
    IN  IF body.exc = "ZeroDivisionError"
        THEN [ret |-> <<data.col["Close"][NRows(data)],
                        data.col["Close"][NRows(data)] - data.col["Close"][1],
                        FloatOf(0), 0, 0, 0>>,
              err |-> <<"Error calculating metrics">>, exc |-> "none"]
        ELSE TryExcept(body, "Error calculating metrics", ZeroMetrics)

calculate_metrics(data) ==
    TryExcept(calculate_metrics_body(data), "Error calculating metrics", ZeroMetrics)

\* ------------------------------------------ add_technical_indicators
\* ta.trend.sma_indicator(close, window): the mean of the last `window`
\* values, NaN while fewer are available.
sma_indicator(close, window) ==
    [i \in 1..Len(close) |->
        IF i < window THEN NaN
        ELSE Rat(SumSeq(SubSeq(close, i - window + 1, i)), window)]

\* The recursive exponential average y[i] = (1 - a) y[i-1] + a x[i] with
\* a = 2 / (window + 1) and y[1] = x[1].
RECURSIVE Ewm(_, _, _)
Ewm(close, window, i) ==
    IF i = 1 THEN FloatOf(close[1])
    ELSE LET y == Ewm(close, window, i - 1)
         IN  Rat((window - 1) * y[1] + 2 * close[i] * y[2], (window + 1) * y[2])

\* ta.trend.ema_indicator(close, window): NaN while fewer than `window`
\* values are available.
ema_indicator(close, window) ==
    [i \in 1..Len(close) |-> IF i < window THEN NaN ELSE Ewm(close, window, i)]

\* The try block of add_technical_indicators.  fail names the library
\* call that raises ("none" when none does).  data is changed in place:
\* frame is the object as the block left it, also when it raised.
add_technical_indicators_body(data, fail) ==
    IF IsNone(data) THEN [exc |-> "none", val |-> data, frame |-> data]
    ELSE IF ~HasColumn(data, "Close") THEN [exc |-> "none", val |-> data, frame |-> data]
    ELSE IF fail = "flatten" THEN [exc |-> "ValueError", val |-> None, frame |-> data]
    ELSE IF fail = "sma" THEN [exc |-> "ValueError", val |-> None, frame |-> data]
    ELSE LET with_sma == SetColumn(data, "SMA_20",
                                   sma_indicator(data.col["Close"], SmaWindow))
             with_ema == SetColumn(with_sma, "EMA_20",
                                   ema_indicator(data.col["Close"], EmaWindow))
         IN  IF fail = "ema"
             THEN [exc |-> "ValueError", val |-> None, frame |-> with_sma]
             ELSE [exc |-> "none", val |-> with_ema, frame |-> with_ema]

\* except Exception: st.error(...); return data  (the same object).
add_technical_indicators(data, fail) ==
    LET body == add_technical_indicators_body(data, fail)
    IN  TryExcept(body, "Error calculating indicators", body.frame)

IndicatorFailures == {"none", "flatten", "sma", "ema"}

\* ------------------------------------------ create_candlestick_chart
\* The columns the chart reads, in the order the code reads them.
ChartColumns(indicators) ==
    <<"Datetime", "Open", "High", "Low", "Close", "Volume">>
    \o (IF "SMA 20" \in indicators THEN <<"SMA_20">> ELSE <<>>)
    \o (IF "EMA 20" \in indicators THEN <<"EMA_20">> ELSE <<>>)

create_candlestick_chart_body(data, ticker, indicators) ==
    IF IsNone(data) THEN Raise("TypeError")
    ELSE IF \E i \in 1..Len(ChartColumns(indicators)) :
                ~HasColumn(data, ChartColumns(indicators)[i])
    THEN Raise("KeyError")
    ELSE Return([type |-> "Figure", title |-> ticker,
                 traces |-> <<"OHLC", "Volume">>
                    \o (IF "SMA 20" \in indicators THEN <<"SMA 20">> ELSE <<>>)
                    \o (IF "EMA 20" \in indicators THEN <<"EMA 20">> ELSE <<>>)])

create_candlestick_chart(data, ticker, indicators) ==
    TryExcept(create_candlestick_chart_body(data, ticker, indicators),
              "Error creating chart", None)

\* ------------------------------------------------- the script's inputs
Periods == {"1d", "1wk", "1mo", "1y", "max"}

interval_mapping(period) ==
    CASE period = "1d" -> "1m"
      [] period = "1wk" -> "30m"
      [] period = "1mo" -> "1d"
      [] period = "1y" -> "1wk"
      [] period = "max" -> "1wk"

IndicatorChoices == {"SMA 20", "EMA 20"}
Tickers == {"MSFT"}
watchlist == <<"AAPL", "GOOGL", "AMZN", "MSFT">>

\* ------------------------------------------------------- price bars
Bar(o, h, l, c, v) == [Open |-> o, High |-> h, Low |-> l, Close |-> c, Volume |-> v]

\* Bars with Low <= Close <= High; calculate_metrics does not read Open.
Bars ==
    {Bar(c, h, l, c, v) : c \in 0..MaxPrice, h \in 0..MaxPrice, l \in 0..MaxPrice,
                          v \in {0, MaxVolume}}

ValidBars == {b \in Bars : b.Low <= b.Close /\ b.Close <= b.High}

\* Sequences of at most n elements of S.
RECURSIVE SeqsUpTo(_, _)
SeqsUpTo(S, n) ==
    IF n = 0 THEN {<<>>}
    ELSE LET shorter == SeqsUpTo(S, n - 1)
         IN  shorter \cup {Append(s, x) : s \in {t \in shorter : Len(t) = n - 1}, x \in S}

\* Bars that open at the previous close: n bars rising by one from p.
Ramp(n, p) == [i \in 1..n |-> Bar(p + i - 1, p + i, p + i - 1, p + i, MaxVolume)]

\* yfinance names the index Datetime for intraday intervals and Date for
\* the others, and the provider's times may or may not carry a timezone.
IndexKinds == {<<"Date", "naive">>, <<"Datetime", "UTC">>, <<"Datetime", "US/Eastern">>}

IndexKindOf(interval) ==
    IF interval \in {"1m", "30m"} THEN <<"Datetime", "UTC">> ELSE <<"Date", "naive">>

\* What yf.download can do with a request: raise; an empty frame (unknown
\* ticker, no rows); rows; rows whose first bar is all zero; a frame
\* without its Close column.
DownloadOutcomes(interval) ==
    LET k == IndexKindOf(interval)
    IN  {Raise("ConnectionError"),
         Return(FrameOf(<<>>, k[1], k[2])),
         Return(FrameOf(Ramp(MaxRows, 1), k[1], k[2])),
         Return(FrameOf(Ramp(MaxRows, 0), k[1], k[2])),
         Return(DropColumn(FrameOf(Ramp(MaxRows, 1), k[1], k[2]), "Close"))}

\* -------------------------------------------------------------- state
VARIABLES
    pc,            \* where the script (or the function harness) is
    ticker,        \* st.sidebar.text_input('Ticker')
    time_period,   \* st.sidebar.selectbox('Time Period')
    indicators,    \* st.sidebar.multiselect('Technical Indicators')
    pressed,       \* st.sidebar.button('Update')
    now,           \* datetime.now(), in days
    data,          \* the script's variable data
    requests,      \* the yf.download calls made, in order
    errors,        \* the st.error messages shown, in order
    page,          \* the widgets rendered in the main area, in order
    sidebar,       \* the st.sidebar.metric widgets rendered, in order
    watch_data,    \* the script's variable watch_data
    next_symbol,   \* the position of the watchlist loop
    fn,            \* harness: the function under test
    arg,           \* harness: its argument
    calls          \* harness: the results of its successive applications

vars == <<pc, ticker, time_period, indicators, pressed, now, data, requests,
          errors, page, sidebar, watch_data, next_symbol, fn, arg, calls>>

inputs == <<ticker, time_period, indicators, pressed, now>>
harness == <<fn, arg, calls>>

\* ------------------------------------------------- the script's run
Init ==
    /\ pc = "script"
    /\ ticker \in Tickers
    /\ time_period \in Periods
    /\ indicators \in SUBSET IndicatorChoices
    /\ pressed \in BOOLEAN
    /\ now \in {WeekDays, WeekDays + 1}
    /\ data = None
    /\ requests = <<>>
    /\ errors = <<>>
    /\ page = <<>>
    /\ sidebar = <<>>
    /\ watch_data = None
    /\ next_symbol = 1
    /\ fn = "script"
    /\ arg = None
    /\ calls = <<>>

\* if st.sidebar.button('Update'): data = fetch_stock_data(...)
UpdateFetch ==
    /\ pc = "script"
    /\ pressed
    /\ \E outcome \in DownloadOutcomes(interval_mapping(time_period)) :
        LET r == fetch_stock_data(ticker, time_period,
                                  interval_mapping(time_period), now, outcome)
        IN  /\ requests' = Append(requests, r.request)
            /\ errors' = errors \o r.err
            /\ data' = r.ret
            /\ pc' = IF IsNone(r.ret) THEN "watchlist" ELSE "process"
    /\ UNCHANGED <<inputs, page, sidebar, watch_data, next_symbol, harness>>

\* The button was not pressed: the branch is skipped.
UpdateSkipped ==
    /\ pc = "script"
    /\ ~pressed
    /\ pc' = "watchlist"
    /\ UNCHANGED <<inputs, data, requests, errors, page, sidebar, watch_data, next_symbol, harness>>

\* data = process_data(data)
UpdateProcess ==
    /\ pc = "process"
    /\ LET r == process_data(data)
       IN  /\ errors' = errors \o r.err
           /\ data' = r.ret
           /\ pc' = IF IsNone(r.ret) THEN "watchlist" ELSE "indicators"
    /\ UNCHANGED <<inputs, requests, page, sidebar, watch_data, next_symbol, harness>>

\* data = add_technical_indicators(data)
UpdateIndicators ==
    /\ pc = "indicators"
    /\ \E fail \in IndicatorFailures :
        LET r == add_technical_indicators(data, fail)
        IN  /\ errors' = errors \o r.err
            /\ data' = r.ret
    /\ pc' = "metrics"
    /\ UNCHANGED <<inputs, requests, page, sidebar, watch_data, next_symbol, harness>>

\* The st.metric widgets of the Update branch.
MetricWidgets(t, m) ==
    <<[type |-> "metric", label |-> "Last Price", ticker |-> t, value |-> m[1],
       delta |-> <<m[2], m[3]>>],
      [type |-> "metric", label |-> "High", value |-> m[4]],
      [type |-> "metric", label |-> "Low", value |-> m[5]],
      [type |-> "metric", label |-> "Volume", value |-> m[6]]>>

\* calculate_metrics(data) and the four st.metric calls.
UpdateMetrics ==
    /\ pc = "metrics"
    /\ LET r == calculate_metrics(data)
       IN  /\ errors' = errors \o r.err
           /\ page' = page \o MetricWidgets(ticker, r.ret)
    /\ pc' = "chart"
    /\ UNCHANGED <<inputs, data, requests, sidebar, watch_data, next_symbol, harness>>

\* fig = create_candlestick_chart(...); st.plotly_chart(fig) unless None.
UpdateChart ==
    /\ pc = "chart"
    /\ LET r == create_candlestick_chart(data, ticker, indicators)
       IN  /\ errors' = errors \o r.err
           /\ page' = IF IsNone(r.ret) THEN page
                      ELSE Append(page, [type |-> "plotly_chart", figure |-> r.ret])
    /\ pc' = "watchlist"
    /\ UNCHANGED <<inputs, data, requests, sidebar, watch_data, next_symbol, harness>>

\* The try block of one watchlist iteration, given the fetch's result:
\* the widget to render (val, None for no widget) or the exception raised,
\* the messages shown, and watch_data as the block left it.
watch_body(symbol, fetched) ==
    IF IsNone(fetched.ret)
    THEN [exc |-> "none", val |-> None, err |-> fetched.err, watch_data |-> None]
    ELSE LET p == process_data(fetched.ret)
             normalized == p.ret
             shown == fetched.err \o p.err
         IN  IF IsNone(normalized)
             THEN [exc |-> "none", val |-> None, err |-> shown, watch_data |-> None]
             ELSE IF ~HasColumn(normalized, "Close") \/ ~HasColumn(normalized, "Open")
             THEN [exc |-> "KeyError", val |-> None, err |-> shown,
                   watch_data |-> normalized]
             ELSE LET last_price == normalized.col["Close"][NRows(normalized)]
                      prev_price == normalized.col["Open"][1]
                      change == last_price - prev_price
                  IN  IF prev_price = 0
                      THEN [exc |-> "ZeroDivisionError", val |-> None, err |-> shown,
                            watch_data |-> normalized]
                      ELSE [exc |-> "none",
                            val |-> [type |-> "metric", label |-> symbol,
                                     value |-> last_price,
                                     delta |-> <<change, Rat(change * 100, prev_price)>>],
                            err |-> shown, watch_data |-> normalized]

\* watch_iteration with the try around the whole loop: an exception ends it.
watch_iteration_try_around_loop(symbol, fetched) ==
    LET body == watch_body(symbol, fetched)
    IN  [widgets |-> IF body.exc # "none"
                     THEN <<[type |-> "metric", label |-> symbol, text |-> "N/A",
                            note |-> "Error"]>>
                     ELSE IF IsNone(body.val) THEN <<>> ELSE <<body.val>>,
         err |-> body.err,
         watch_data |-> body.watch_data,
         continues |-> body.exc = "none"]

\* One iteration of the loop, its except clause included: what it appends
\* to the sidebar and to the errors shown, and whether the loop goes on.
watch_iteration(symbol, fetched) ==
    LET body == watch_body(symbol, fetched)
    IN  [widgets |-> IF body.exc # "none"
                     THEN <<[type |-> "metric", label |-> symbol, text |-> "N/A",
                            note |-> "Error"]>>
                     ELSE IF IsNone(body.val) THEN <<>> ELSE <<body.val>>,
         err |-> body.err,
         watch_data |-> body.watch_data,
         continues |-> TRUE]

\* for symbol in watchlist: try: ... except Exception: ...
WatchIteration ==
    /\ pc = "watchlist"
    /\ next_symbol <= Len(watchlist)
    /\ \E outcome \in DownloadOutcomes("1m") :
        LET symbol == watchlist[next_symbol]
            fetched == fetch_stock_data(symbol, "1d", "1m", now, outcome)
            it == watch_iteration(symbol, fetched)
        IN  /\ requests' = Append(requests, fetched.request)
            /\ errors' = errors \o it.err
            /\ sidebar' = sidebar \o it.widgets
            /\ watch_data' = it.watch_data
            /\ next_symbol' = next_symbol + 1
            /\ pc' = IF it.continues /\ next_symbol < Len(watchlist)
                     THEN "watchlist" ELSE "done"
    /\ UNCHANGED <<inputs, data, page, harness>>

Next ==
    \/ UpdateFetch
    \/ UpdateSkipped
    \/ UpdateProcess
    \/ UpdateIndicators
    \/ UpdateMetrics
    \/ UpdateChart
    \/ WatchIteration

Spec == Init /\ [][Next]_vars

\* ------------------------------------- the stages applied on their own
FlatBars == {Bar(p, p, p, p, MaxVolume) : p \in 0..MaxPrice}

\* What process_data is given: nothing, or a frame as yfinance builds it.
RawFrames ==
    {FrameOf(bars, k[1], k[2]) : bars \in SeqsUpTo(FlatBars, MaxRows), k \in IndexKinds}

Normalized(bars) == process_data(FrameOf(bars, "Datetime", "UTC")).ret

NormalizedFrames == {Normalized(bars) : bars \in SeqsUpTo(ValidBars, MaxRows) \ {<<>>}}

NormalizedFlatFrames == {Normalized(bars) : bars \in SeqsUpTo(FlatBars, MaxRows) \ {<<>>}}

ProcessArgs == {None} \cup RawFrames

MetricsArgs ==
    {None, FrameOf(<<>>, "Datetime", "UTC")}
    \cup NormalizedFrames
    \cup {DropColumn(f, c) : f \in NormalizedFlatFrames,
                             c \in Range(PriceColumns)}

IndicatorArgs ==
    {None} \cup NormalizedFlatFrames
    \cup {DropColumn(f, "Close") : f \in NormalizedFlatFrames}

InitFn ==
    /\ pc = "call"
    /\ \/ fn = "process_data" /\ arg \in ProcessArgs
       \/ fn = "calculate_metrics" /\ arg \in MetricsArgs
       \/ fn = "add_technical_indicators" /\ arg \in IndicatorArgs
    /\ calls = <<>>
    /\ ticker = "MSFT"
    /\ time_period = "1d"
    /\ indicators = {}
    /\ pressed = FALSE
    /\ now = WeekDays
    /\ data = None
    /\ requests = <<>>
    /\ errors = <<>>
    /\ page = <<>>
    /\ sidebar = <<>>
    /\ watch_data = None
    /\ next_symbol = 1

CallProcessData ==
    /\ pc = "call"
    /\ fn = "process_data"
    /\ LET r == process_data(arg)
       IN  /\ calls' = <<r>>
           /\ errors' = errors \o r.err
    /\ pc' = "returned"
    /\ UNCHANGED <<inputs, data, requests, page, sidebar, watch_data, next_symbol, fn, arg>>

\* process_data applied to what process_data returned.
ReapplyProcessData ==
    /\ pc = "returned"
    /\ fn = "process_data"
    /\ LET r == process_data(calls[1].ret)
       IN  /\ calls' = Append(calls, r)
           /\ errors' = errors \o r.err
    /\ pc' = "reapplied"
    /\ UNCHANGED <<inputs, data, requests, page, sidebar, watch_data, next_symbol, fn, arg>>

CallCalculateMetrics ==
    /\ pc = "call"
    /\ fn = "calculate_metrics"
    /\ LET r == calculate_metrics(arg)
       IN  /\ calls' = <<r>>
           /\ errors' = errors \o r.err
    /\ pc' = "returned"
    /\ UNCHANGED <<inputs, data, requests, page, sidebar, watch_data, next_symbol, fn, arg>>

CallAddTechnicalIndicators ==
    /\ pc = "call"
    /\ fn = "add_technical_indicators"
    /\ \E fail \in IndicatorFailures :
        LET r == add_technical_indicators(arg, fail)
        IN  /\ calls' = <<r>>
            /\ errors' = errors \o r.err
    /\ pc' = "returned"
    /\ UNCHANGED <<inputs, data, requests, page, sidebar, watch_data, next_symbol, fn, arg>>

NextFn ==
    \/ CallProcessData
    \/ ReapplyProcessData
    \/ CallCalculateMetrics
    \/ CallAddTechnicalIndicators

SpecFn == InitFn /\ [][NextFn]_vars

\* =============================================================== claims

IsFrame(x) == x.type = "DataFrame"
HasPriceColumns(df) == \A c \in Range(PriceColumns) : HasColumn(df, c)

\* A table with the four columns calculate_metrics reads, at least one
\* row and a non-zero first close.
MetricsDefined(x) ==
    /\ IsFrame(x)
    /\ \A c \in {"Close", "High", "Low", "Volume"} : HasColumn(x, c)
    /\ NRows(x) >= 1
    /\ x.col["Close"][1] # 0

\* C1: no exception leaves a stage; on an absent, empty or incomplete
\* input each stage returns its safe default (process_data: None,
\* calculate_metrics: all zero, add_technical_indicators: a table) and
\* shows an error.
C1StagesDegradeWithWarning ==
    pc = "returned" =>
        LET r == calls[1]
        IN  /\ r.exc = "none"
            /\ (fn = "process_data" /\ (IsNone(arg) \/ IsEmpty(arg)))
                  => (IsNone(r.ret) /\ r.err # <<>>)
            /\ (fn = "calculate_metrics" /\ ~MetricsDefined(arg))
                  => (r.ret = ZeroMetrics /\ r.err # <<>>)
            /\ fn = "add_technical_indicators"
                  => /\ IsFrame(r.ret)
                     /\ (IsNone(arg) \/ ~HasColumn(arg, "Close")) => r.err # <<>>

\* C3: process_data applied to a table it returned gives that table again.
C3NormalizationIdempotent ==
    (pc = "reapplied" /\ IsFrame(calls[1].ret)) => calls[2].ret = calls[1].ret

\* C4: on a normalized table with a row and a non-zero first close,
\* calculate_metrics returns the last close, last minus first close, that
\* change over the first close times 100, the greatest High, the least Low
\* and the sum of Volume.
C4MetricsExact ==
    (pc = "returned" /\ fn = "calculate_metrics" /\ MetricsDefined(arg)) =>
        LET m == calls[1].ret
            close == arg.col["Close"]
            first == close[1]
        IN  /\ calls[1].err = <<>>
            /\ m[1] = close[Len(close)]
            /\ m[2] = close[Len(close)] - first
            /\ m[3][2] > 0
            /\ m[3][1] * first = (close[Len(close)] - first) * 100 * m[3][2]
            /\ m[4] \in Range(arg.col["High"])
            /\ \A h \in Range(arg.col["High"]) : h <= m[4]
            /\ m[5] \in Range(arg.col["Low"])
            /\ \A l \in Range(arg.col["Low"]) : m[5] <= l
            /\ m[6] = SumSeq(arg.col["Volume"])

C4Witness ==
    /\ pc = "returned" /\ fn = "calculate_metrics" /\ MetricsDefined(arg)
    /\ NRows(arg) = 2
    /\ calls[1].ret[3] = <<-50, 1>>
    /\ calls[1].ret[4] > calls[1].ret[1]
    /\ calls[1].ret[6] = 2 * MaxVolume

\* C5: when the first close is zero, calculate_metrics raises nothing and
\* percent_change is the sentinel zero.
C5ZeroBaselineSentinel ==
    (/\ pc = "returned" /\ fn = "calculate_metrics"
     /\ IsFrame(arg) /\ HasColumn(arg, "Close") /\ NRows(arg) >= 1
     /\ arg.col["Close"][1] = 0)
    => (calls[1].exc = "none" /\ calls[1].ret[3] = FloatOf(0))

C5Witness ==
    /\ pc = "returned" /\ fn = "calculate_metrics"
    /\ IsFrame(arg) /\ HasPriceColumns(arg) /\ NRows(arg) = 2
    /\ arg.col["Close"][1] = 0 /\ arg.col["Close"][2] = MaxPrice
    /\ calls[1].ret[3] = FloatOf(0)

\* C10: a calculate_metrics that fails at any step returns zero in every
\* field, whatever the table holds; it fails exactly when the table is
\* absent, has no row, lacks a column or starts at a zero close.
C10FailureIsAllZero ==
    (pc = "returned" /\ fn = "calculate_metrics") =>
        /\ (calls[1].err # <<>>) = ~MetricsDefined(arg)
        /\ calls[1].err # <<>> => calls[1].ret = ZeroMetrics

C10Witness ==
    /\ pc = "returned" /\ fn = "calculate_metrics"
    /\ IsFrame(arg) /\ HasPriceColumns(arg) /\ NRows(arg) = 2
    /\ arg.col["Close"][1] = 0 /\ arg.col["Close"][2] > 0
    /\ arg.col["High"][2] > 0 /\ arg.col["Volume"][1] > 0
    /\ calls[1].ret = ZeroMetrics

\* C2: each watchlist iteration fetches its symbol and moves to the next
\* one, the loop ends only after the last symbol, and a symbol whose fetch
\* and normalization gave a table gets a widget, the earlier widgets kept:
\* its last close when its own table has the columns and a non-zero first
\* open, the N/A widget otherwise.
C2WatchlistIsolation ==
    [][pc = "watchlist" =>
        /\ next_symbol \in 1..4
        /\ next_symbol' = next_symbol + 1
        /\ requests' = Append(requests,
              [ticker |-> <<"AAPL", "GOOGL", "AMZN", "MSFT">>[next_symbol],
               kwargs |-> [period |-> "1d", interval |-> "1m"]])
        /\ pc' = IF next_symbol = 4 THEN "done" ELSE "watchlist"
        /\ Len(sidebar') >= Len(sidebar)
        /\ SubSeq(sidebar', 1, Len(sidebar)) = sidebar
        /\ IsFrame(watch_data') =>
              LET w == sidebar'[Len(sidebar')]
                  priced == /\ HasColumn(watch_data', "Close")
                            /\ HasColumn(watch_data', "Open")
                            /\ watch_data'.col["Open"][1] # 0
              IN  /\ Len(sidebar') = Len(sidebar) + 1
                  /\ w.label = watchlist[next_symbol]
                  /\ priced => /\ "value" \in DOMAIN w
                               /\ w.value = watch_data'.col["Close"][NRows(watch_data')]
                  /\ ~priced => ("text" \in DOMAIN w /\ w.text = "N/A")
    ]_vars

C2Witness ==
    /\ pc = "done"
    /\ Len(requests) >= 4
    /\ Len(sidebar) = 3
    /\ sidebar[1].label = "AAPL" /\ "text" \in DOMAIN sidebar[1]
    /\ sidebar[2].label = "AMZN" /\ "value" \in DOMAIN sidebar[2]
    /\ sidebar[3].label = "MSFT" /\ "value" \in DOMAIN sidebar[3]

\* C9: Update makes one yf.download call, the first of the run, with the
\* interval of the lookup table; it passes start = now - 7 days and
\* end = now and no period exactly when the period is 1wk, and the period
\* preset otherwise.
C9RequestShape ==
    (pressed /\ pc # "script") =>
        LET interval == CASE time_period = "1d" -> "1m"
                          [] time_period = "1wk" -> "30m"
                          [] time_period = "1mo" -> "1d"
                          [] time_period = "1y" -> "1wk"
                          [] time_period = "max" -> "1wk"
        IN  /\ Len(requests) = next_symbol
            /\ \A i \in 2..Len(requests) : requests[i].ticker = watchlist[i - 1]
            /\ requests[1].ticker = ticker
            /\ requests[1].kwargs.interval = interval
            /\ (DOMAIN requests[1].kwargs = {"start", "end", "interval"})
                  = (time_period = "1wk")
            /\ time_period = "1wk" =>
                  requests[1].kwargs = [start |-> now - 7, end |-> now,
                                        interval |-> interval]
            /\ time_period # "1wk" =>
                  requests[1].kwargs = [period |-> time_period, interval |-> interval]

C9Witness ==
    /\ pressed /\ pc = "done" /\ time_period = "1wk"
    /\ requests[1].kwargs.start = now - 7
    /\ Len(requests) = 5

\* C6: when the Update fetch fails (the provider raises, or returns no
\* rows for an unknown ticker or an empty result), the result is empty or
\* absent and a warning has been shown.
C6FetchFailureWarns ==
    /\ (pressed /\ pc = "process" /\ IsEmpty(data)) => errors # <<>>
    /\ (pressed /\ pc = "watchlist" /\ next_symbol = 1 /\ page = <<>>)
          => (IsNone(data) /\ errors # <<>>)

\* C7: when Update's fetch returned an empty table, normalization gives
\* an absent table and the Update branch does not end before something
\* (a widget, a chart or a message) has been rendered for the ticker.
C7EmptyFetchRendersSomething ==
    [][(pressed /\ pc = "process" /\ IsEmpty(data)) =>
          /\ IsNone(data')
          /\ pc' = "watchlist" => (page' # <<>> \/ errors' # <<>>)
    ]_vars

\* C8: after add_technical_indicators met a missing Close column or an
\* error, the table has no indicator column and an error has been shown.
C8IndicatorFailureLeavesTable ==
    pc = "metrics" =>
        /\ SeqContains(errors, "Error calculating indicators")
              => (~HasColumn(data, "SMA_20") /\ ~HasColumn(data, "EMA_20"))
        /\ ~HasColumn(data, "Close")
              => SeqContains(errors, "Error calculating indicators")

====
